---- MODULE Spec2Model ----
(***************************************************************************)
(* diffoscope comparison engine: File.compare and its fallbacks,           *)
(* NonExistingFile.compare (backward comparison and reversal),             *)
(* File.has_same_content_as, the container-view cache of File, and         *)
(* FilesystemDirectory.compare.                                            *)
(*                                                                         *)
(* Values.  A path or a name is a sequence of path components (strings).   *)
(* File content is a sequence of bytes.  A text is a sequence of lines.    *)
(* A Python result is a record with a kind: None, a Difference, a list,    *)
(* a Container, or a raised exception.  Every operation returns an         *)
(* outcome [ret, ev]: the result and the sequence of events (calls made,   *)
(* exceptions caught, messages logged) of the run.                         *)
(***************************************************************************)
EXTENDS Integers, Sequences, FiniteSets, TLC

\* Bounds of the model.
MaxLen == 2
MaxViews == 3
MaxMissing == 2

\* binary.py: SMALL_FILE_THRESHOLD
SMALL_FILE_THRESHOLD == 65536

Bytes == 0..1
Names == <<"a", "b", "c">>
ToolNames == {"diff", "xxd", "cmp", "stat", "lsattr", "getfacl", "zipinfo"}
DecoderTool == "zipinfo"

VARIABLES
  tools,     \* the external tools found in PATH
  failing,   \* the tools that exit non-zero when run
  pc,        \* "idle", or "done" after an operation returned or raised
  op,        \* the operation run last and its arguments
  result,    \* what it returned, or the exception it raised
  events,    \* the events of that run
  objs,      \* the File objects of the container-view life cycle
  made,      \* per object: the container views constructed since the last cleanup
  nextId     \* the identity of the next container view constructed

vars == <<tools, failing, pc, op, result, events, objs, made, nextId>>

----------------------------------------------------------------------------
\* Python values

None == [kind |-> "None"]
NoSource == <<>>
Raise(exc, command) == [kind |-> "Raise", exc |-> exc, command |-> command]
List(items) == [kind |-> "List", items |-> items]
Out(ret, ev) == [ret |-> ret, ev |-> ev]

IsNone(x) == x.kind = "None"
IsRaise(x) == x.kind = "Raise"
IsDifference(x) == x.kind = "Difference"
IsToolMissing(x) == IsRaise(x) /\ x.exc = "RequiredToolNotFound"
IsToolFailure(x) == IsRaise(x) /\ x.exc = "CalledProcessError"

\* an outcome with events put before its own, or after
WithEv(ev, o) == Out(o.ret, ev \o o.ev)
AddEv(o, ev) == Out(o.ret, o.ev \o ev)

\* two list-valued steps in sequence: the first raise ends the run
Then(a, b) ==
  IF IsRaise(a.ret) THEN a
  ELSE IF IsRaise(b.ret) THEN WithEv(a.ev, b)
  ELSE Out(List(a.ret.items \o b.ret.items), a.ev \o b.ev)

\* a value or a raise, as a list-valued step
AsList(x) == IF IsRaise(x) THEN x ELSE List(<<x>>)
OneItem(o) == Out(AsList(o.ret), o.ev)

\* filter(None, items)
RECURSIVE FilterNone(_)
FilterNone(items) ==
  IF items = <<>> THEN <<>>
  ELSE IF IsNone(Head(items)) THEN FilterNone(Tail(items))
       ELSE <<Head(items)>> \o FilterNone(Tail(items))

----------------------------------------------------------------------------
\* diffoscope.difference (not part of the sources at hand)

\* Difference(unified_diff, path1, path2, source=None, comment=None)
Difference(unified_diff, path1, path2, source, comments) ==
  [kind |-> "Difference", unified_diff |-> unified_diff,
   source1 |-> path1, source2 |-> path2, source |-> source,
   comments |-> comments, details |-> <<>>]

add_comment(difference, comment) ==
  [difference EXCEPT !.comments = @ \o <<comment>>]

add_details(difference, details) ==
  [difference EXCEPT !.details = @ \o details]

\* Difference.from_text: the textual diff of two texts; absent when they are
\* equal, and the diff tool is required.
from_text(text1, text2, path1, path2, source, comments) ==
  IF "diff" \notin tools THEN Raise("RequiredToolNotFound", "diff")
  ELSE IF text1 = text2 THEN None
  ELSE Difference(<<text1, text2>>, path1, path2, source, comments)

\* Difference.from_command: the textual diff of the outputs of one command
\* run on both paths; the command's tool is required, then the diff tool.
from_command(tool, output1, output2, path1, path2, source) ==
  IF tool \notin tools THEN Raise("RequiredToolNotFound", tool)
  ELSE from_text(output1, output2, path1, path2, source, <<>>)

\* Difference.get_reverse: source1 and source2 swapped, the unified diff
\* reversed, the comments kept, every detail reversed the same way.
RECURSIVE get_reverse(_)
ReverseAll(details) == [i \in 1..Len(details) |-> get_reverse(details[i])]
get_reverse(d) ==
  [kind |-> "Difference",
   unified_diff |-> IF d.unified_diff = <<>> THEN <<>>
                    ELSE <<d.unified_diff[2], d.unified_diff[1]>>,
   source1 |-> d.source2, source2 |-> d.source1, source |-> d.source,
   comments |-> d.comments,
   details |-> ReverseAll(d.details)]

\* RequiredToolNotFound.get_package
get_package(command) ==
  IF command = "zipinfo" THEN <<"unzip">>
  ELSE IF command = "diff" THEN <<"diffutils">>
  ELSE <<>>

----------------------------------------------------------------------------
\* Files

HasCompareDetails(cls) == cls \in {"TextFile", "ZipFile"}
HasContainerClass(cls) == cls \in {"TarFile", "ZipFile"}
RealClasses == {"FilesystemFile", "TextFile", "TarFile", "ZipFile"}

RECURSIVE SeqsUpTo(_)
SeqsUpTo(n) ==
  IF n = 0 THEN {<<>>}
  ELSE LET shorter == SeqsUpTo(n - 1)
       IN shorter \cup {Append(s, b) : s \in {t \in shorter : Len(t) = n - 1}, b \in Bytes}
Contents == SeqsUpTo(MaxLen)

\* FilesystemFile(path), specialized to a class
FilesystemFile(cls, name, content) ==
  [cls |-> cls, name |-> name, path |-> name, content |-> content, other_file |-> "None"]

\* NonExistingFile(path, other_file): other_file is kept by its class
NonExistingFile(name, other_file) ==
  [cls |-> "NonExistingFile", name |-> name, path |-> <<"dev", "null">>, content |-> <<>>,
   other_file |-> other_file]

IsMissing(file) == file.cls = "NonExistingFile"

\* open(file.path, 'rb').read(); a NonExistingFile's path is /dev/null
Read(file) == IF IsMissing(file) THEN <<>> ELSE file.content

\* os.path.getsize(file.path)
getsize(file) == Len(Read(file))

\* hexlify(buf): two hexadecimal digits per byte
RECURSIVE hexlify(_)
hexlify(buf) ==
  IF buf = <<>> THEN <<>>
  ELSE <<Head(buf) \div 16, Head(buf) % 16>> \o hexlify(Tail(buf))

\* the lines of n bytes a dump is made of
RECURSIVE Chunks(_, _)
Chunks(data, n) ==
  IF data = <<>> THEN <<>>
  ELSE IF Len(data) <= n THEN <<data>>
  ELSE <<SubSeq(data, 1, n)>> \o Chunks(SubSeq(data, n + 1, Len(data)), n)

hexdump_fallback(file) ==
  LET lines == Chunks(Read(file), 32)
  IN [i \in 1..Len(lines) |-> hexlify(lines[i])]

\* xxd: 16 bytes a line, each line led by its offset
Xxd(file) ==
  LET lines == Chunks(Read(file), 16)
  IN [i \in 1..Len(lines) |-> <<(i - 1) * 16>> \o hexlify(lines[i])]

\* the except clause of compare_binary_files, given what the try block gave
HexdumpFallback(file1, file2, source, d) ==
  IF IsToolMissing(d)
  THEN Out(from_text(hexdump_fallback(file1), hexdump_fallback(file2),
                     file1.name, file2.name, source,
                     << <<"xxd not available in path. Falling back to Python hexlify.">> >>),
           << [e |-> "fallback", what |-> "hexlify"] >>)
  ELSE Out(d, <<>>)

compare_binary_files(file1, file2, source) ==
  HexdumpFallback(file1, file2, source,
                  from_command("xxd", Xxd(file1), Xxd(file2), file1.name, file2.name, NoSource))

compare_bytes(self, other, source) == compare_binary_files(self, other, source)

----------------------------------------------------------------------------
\* Member names and their order

Rank(name) == CHOOSE i \in 1..Len(Names) : Names[i] = name

\* sorted(S) for a set of member names
RECURSIVE sorted(_)
sorted(S) ==
  IF S = {} THEN <<>>
  ELSE LET least == CHOOSE n \in S : \A m \in S : Rank(n) <= Rank(m)
       IN <<least>> \o sorted(S \ {least})

ToSet(seq) == {seq[i] : i \in 1..Len(seq)}

----------------------------------------------------------------------------
\* Format plugins (collaborators of the engine)

\* what the decoder's tool prints for a file: one line per member
DecoderView(file) == [i \in 1..Len(Read(file)) |-> <<i>>]

\* compare_details(other, source): a list of Difference or None; the tool is
\* required and may exit non-zero
compare_details(self, other, source) ==
  IF DecoderTool \notin tools THEN Raise("RequiredToolNotFound", DecoderTool)
  ELSE IF DecoderTool \in failing THEN Raise("CalledProcessError", DecoderTool)
  ELSE AsList(from_command(DecoderTool, DecoderView(self), DecoderView(other),
                           self.name, other.name, <<DecoderTool>>))

\* CONTAINER_CLASS(file)
Container(file) == [kind |-> "Container", source |-> file]

\* Container.get_member_names of an archive: one member per byte
ArchiveMemberNames(container) ==
  [i \in 1..Len(Read(container.source)) |-> Names[i]]

\* Container.get_member of an archive
ArchiveMember(container, name) ==
  FilesystemFile("FilesystemFile", container.source.name \o <<name>>,
                 <<Read(container.source)[Rank(name)]>>)

----------------------------------------------------------------------------
\* File (binary.py)

\* File.as_container, by the value it returns
as_container(file) ==
  IF ~HasContainerClass(file.cls)
  THEN IF IsMissing(file)
       THEN IF HasContainerClass(file.other_file) THEN Container(file)
            ELSE Raise("AttributeError", "CONTAINER_CLASS")
       ELSE None
  ELSE Container(file)

RECURSIVE File_compare(_, _, _)

\* diffoscope.comparators.compare_files: the orchestrator on two members
compare_files(file1, file2, source) == File_compare(file1, file2, source)

\* the member comparisons of Container.compare, in order, up to the first raise
RECURSIVE CompareMembers(_, _, _)
CompareMembers(names, mine, theirs) ==
  IF names = <<>> THEN Out(List(<<>>), <<>>)
  ELSE Then(WithEv(<< [e |-> "compare_files", name |-> Head(names)] >>,
                   OneItem(compare_files(ArchiveMember(mine, Head(names)),
                                         ArchiveMember(theirs, Head(names)),
                                         <<Head(names)>>))),
            CompareMembers(Tail(names), mine, theirs))

\* Container.compare(other): the members both containers hold, in sorted order
Container_compare(mine, theirs) ==
  IF IsNone(theirs) THEN Out(Raise("AttributeError", "get_member_names"), <<>>)
  ELSE CompareMembers(sorted(ToSet(ArchiveMemberNames(mine))
                               \cap ToSet(ArchiveMemberNames(theirs))),
                      mine, theirs)

\* self.as_container.compare(other.as_container), given other.as_container
CompareContainers(self, theirs) ==
  IF IsRaise(theirs) THEN Out(theirs, <<>>)
  ELSE WithEv(<< [e |-> "container_compare", other |-> theirs.kind] >>,
              Container_compare(as_container(self), theirs))

\* the container part of File._compare_using_details
ContainerDetails(self, other) ==
  IF IsNone(as_container(self)) THEN Out(List(<<>>), <<>>)
  ELSE CompareContainers(self, as_container(other))

\* the compare_details part of File._compare_using_details
OwnDetails(self, other, source) ==
  IF HasCompareDetails(self.cls) THEN Out(compare_details(self, other, source), <<>>)
  ELSE Out(List(<<>>), <<>>)

\* the end of File._compare_using_details, given the details collected
\* variant: the wrapper is built even when no detail was collected
WrapDetails_Always(self, other, source, details) ==
  add_details(Difference(<<>>, self.name, other.name, source, <<>>), details)

WrapDetails(self, other, source, details) ==
  IF details = <<>> THEN None
  ELSE add_details(Difference(<<>>, self.name, other.name, source, <<>>), details)

CollectDetails(self, other, source, all) ==
  IF IsRaise(all.ret) THEN all
  ELSE Out(WrapDetails(self, other, source, FilterNone(all.ret.items)), all.ev)

_compare_using_details(self, other, source) ==
  CollectDetails(self, other, source,
                 Then(OwnDetails(self, other, source), ContainerDetails(self, other)))

\* "no differences detected inside? let's at least do a binary diff"
BinaryDiffAtLeast(b) ==
  IF IsRaise(b.ret) THEN AddEv(b, << [e |-> "raised", in |-> "bytes"] >>)
  ELSE IF IsNone(b.ret) THEN b
  ELSE Out(add_comment(b.ret, <<"No differences found inside, yet data differs">>),
           b.ev \o << [e |-> "fallback", what |-> "inconsistent"] >>)

\* the try block of File.compare, given what _compare_using_details gave
AfterDetails(self, other, source, u) ==
  IF IsRaise(u.ret) THEN AddEv(u, << [e |-> "raised", in |-> "details"] >>)
  ELSE IF ~IsNone(u.ret) THEN u
  ELSE WithEv(u.ev, BinaryDiffAtLeast(compare_bytes(self, other, source)))

CompareTry(self, other, source) ==
  AfterDetails(self, other, source, _compare_using_details(self, other, source))

\* the comment of the tool-failure fallback, on what compare_bytes gave
CommentToolFailure(b, e) ==
  IF IsRaise(b.ret) \/ IsNone(b.ret) THEN b
  ELSE Out(add_comment(b.ret, <<"Command exited with non-zero status", e.command>>), b.ev)

\* except subprocess.CalledProcessError as e
ExceptToolFailure(self, other, source, e) ==
  WithEv(<< [e |-> "caught", exc |-> e.exc, command |-> e.command] >>,
         CommentToolFailure(compare_bytes(self, other, source), e))

\* "Install '%s' to get a better output."
CommentPackage(d, package) ==
  IF package # <<>> THEN add_comment(d, <<"Install to get a better output.">> \o package)
  ELSE d

\* the comments of the tool-missing fallback, on what compare_bytes gave
CommentToolMissing(b, e) ==
  IF IsRaise(b.ret) \/ IsNone(b.ret) THEN b
  ELSE Out(CommentPackage(
             add_comment(b.ret,
               <<"not available in path. Falling back to binary comparison.", e.command>>),
             get_package(e.command)),
           b.ev)

\* except RequiredToolNotFound as e
ExceptToolMissing(self, other, source, e) ==
  WithEv(<< [e |-> "caught", exc |-> e.exc, command |-> e.command] >>,
         CommentToolMissing(compare_bytes(self, other, source), e))

\* the except clauses of File.compare, given what the try block gave
CompareExcept(self, other, source, t) ==
  IF IsToolFailure(t.ret) THEN WithEv(t.ev, ExceptToolFailure(self, other, source, t.ret))
  ELSE IF IsToolMissing(t.ret) THEN WithEv(t.ev, ExceptToolMissing(self, other, source, t.ret))
  ELSE t

File_compare(self, other, source) ==
  IF HasCompareDetails(self.cls) \/ ~IsNone(as_container(self))
  THEN CompareExcept(self, other, source, CompareTry(self, other, source))
  ELSE compare_bytes(self, other, source)

\* the in-memory comparison of two small files
\* variant: files of one size are taken to be equal
SameBytes_SizeOnly(self, other) == TRUE

SameBytes(self, other) == Read(self) = Read(other)

\* cmp -s: the exit status of a byte-by-byte comparison
RECURSIVE cmp(_, _)
cmp(data1, data2) ==
  IF data1 = <<>> /\ data2 = <<>> THEN 0
  ELSE IF data1 = <<>> \/ data2 = <<>> THEN 1
  ELSE IF Head(data1) # Head(data2) THEN 1
  ELSE cmp(Tail(data1), Tail(data2))

Bool(b) == [kind |-> "Bool", value |-> b]

File_has_same_content_as(self, other) ==
  IF "cmp" \notin tools THEN Raise("RequiredToolNotFound", "cmp")
  ELSE LET my_size == getsize(self)
           other_size == getsize(other)
       IN IF my_size = other_size /\ my_size <= SMALL_FILE_THRESHOLD /\ SameBytes(self, other)
          THEN Bool(TRUE)
          ELSE Bool(0 = cmp(Read(self), Read(other)))

----------------------------------------------------------------------------
\* NonExistingFile (binary.py)

NonExistingFile_has_same_content_as(self, other) == Bool(FALSE)

\* "if not backward_diff: return None; return backward_diff.get_reverse()"
\* variant: the backward difference is handed back as it is
ReverseBackward_AsIs(backward_diff) == backward_diff

ReverseBackward(backward_diff) ==
  IF IsRaise(backward_diff.ret) \/ IsNone(backward_diff.ret) THEN backward_diff
  ELSE Out(get_reverse(backward_diff.ret), backward_diff.ev)

\* variant: the backward comparison is made whatever other is
NonExistingFile_compare_Backward(self, other, source) ==
  WithEv(<< [e |-> "backward", self |-> other.name, other |-> self.name] >>,
         ReverseBackward(File_compare(other, self, source)))

NonExistingFile_compare(self, other, source) ==
  IF IsMissing(other)
  THEN Out(Difference(<<>>, self.name, other.name, NoSource,
                      << <<"Trying to compare two non-existing files.">> >>),
           <<>>)
  ELSE WithEv(<< [e |-> "backward", self |-> other.name, other |-> self.name] >>,
              ReverseBackward(File_compare(other, self, source)))

\* file.compare(other, source), by the class of file
compare(self, other, source) ==
  IF IsMissing(self) THEN NonExistingFile_compare(self, other, source)
  ELSE File_compare(self, other, source)

has_same_content_as(self, other) ==
  IF IsMissing(self) THEN NonExistingFile_has_same_content_as(self, other)
  ELSE File_has_same_content_as(self, other)


----------------------------------------------------------------------------
\* Directories (directory.py)

\* A directory: its path, its files (name -> content and metadata), the order
\* os.walk enumerates them in, and its own metadata.
Directory(path, files, walk, meta) ==
  [path |-> path, files |-> files, walk |-> walk, meta |-> meta]

\* list_files(path): every entry below path, sorted
list_files(dir) == sorted(DOMAIN dir.files)

\* '\n'.join(names): one line per name
JoinLines(names) == [i \in 1..Len(names) |-> <<names[i]>>]

\* what stat prints: the mode, then the inode, which changes from tree to tree
StatOutput(meta) == << <<"Access", meta.mode>>, <<"Inode", meta.inode>> >>

\* Stat.filter: the volatile fields are blanked
StatFilter(line) == IF line[1] = "Inode" THEN <<>> ELSE line

Stat(meta) ==
  LET lines == StatOutput(meta)
  IN [i \in 1..Len(lines) |-> StatFilter(lines[i])]

\* lsattr(path): the attribute flags; the tool is required
lsattr(meta) ==
  IF "lsattr" \notin tools THEN Raise("RequiredToolNotFound", "lsattr")
  ELSE [kind |-> "Text", lines |-> << <<meta.attrs>> >>]

Getfacl(meta) == << <<"acl", meta.acl>> >>

Log(level, message) == << [e |-> "log", level |-> level, message |-> message] >>

\* one part of compare_meta: a missing tool is logged and the part left out
MetaPart(d, level, message) ==
  IF IsToolMissing(d) THEN Out(<<>>, Log(level, message)) ELSE Out(<<d>>, <<>>)

\* lsattr(path1), lsattr(path2) and the diff of the two
LsattrDiff(lsattr1, lsattr2, path1, path2) ==
  IF IsRaise(lsattr1) THEN lsattr1
  ELSE IF IsRaise(lsattr2) THEN lsattr2
  ELSE from_text(lsattr1.lines, lsattr2.lines, path1, path2, <<"lattr">>, <<>>)

\* the parts of compare_meta put together
MetaJoin(s, l, g) == Out(FilterNone(s.ret \o l.ret \o g.ret), s.ev \o l.ev \o g.ev)

compare_meta(path1, meta1, path2, meta2) ==
  MetaJoin(
    MetaPart(from_command("stat", Stat(meta1), Stat(meta2), path1, path2, <<"stat">>),
             "warn", "'stat' not found! Is PATH wrong?"),
    MetaPart(LsattrDiff(lsattr(meta1), lsattr(meta2), path1, path2),
             "info", "Unable to find 'lsattr'."),
    MetaPart(from_command("getfacl", Getfacl(meta1), Getfacl(meta2), path1, path2, <<"getfacl">>),
             "info", "Unable to find 'getfacl'."))

\* DirectoryContainer.get_member_names: the files in the order os.walk gives
get_member_names(dir) == dir.walk

\* the file at path/member_name: its content and metadata (nothing where no
\* such file exists)
FileAt(dir, member_name) ==
  IF member_name \in DOMAIN dir.files THEN dir.files[member_name]
  ELSE [content |-> <<>>, meta |-> [mode |-> 0, inode |-> 0, attrs |-> 0, acl |-> 0]]

\* DirectoryContainer.get_member
get_member(dir, member_name) ==
  FilesystemFile("FilesystemFile", dir.path \o <<member_name>>, FileAt(dir, member_name).content)

\* the names the loop of FilesystemDirectory.compare visits, in order
\* variant: the common names in the order os.walk gave them
CommonNames_Unsorted(my_names, other_names) ==
  SelectSeq(my_names, LAMBDA n : n \in ToSet(other_names))

\* variant: every name of this side, common or not
CommonNames_Mine(my_names, other_names) == sorted(ToSet(my_names))

CommonNames(my_names, other_names) == sorted(ToSet(my_names) \cap ToSet(other_names))

\* "if meta_differences and not inner_difference: ...; if inner_difference: ..."
MergeMeta(inner_difference, meta_differences, path1, path2) ==
  IF IsNone(inner_difference)
  THEN IF meta_differences # <<>>
       THEN <<add_details(Difference(<<>>, path1, path2, NoSource, <<>>), meta_differences)>>
       ELSE <<>>
  ELSE <<add_details(inner_difference, meta_differences)>>

\* the body of the loop once compare_files returned
MemberMeta(inner, meta, path1, path2) ==
  IF IsRaise(inner.ret) THEN inner
  ELSE Out(List(MergeMeta(inner.ret, meta.ret, path1, path2)), inner.ev \o meta.ev)

\* the body of the loop for one member: a list of zero or one Difference
CompareMember(self, other, name) ==
  WithEv(<< [e |-> "compare_files", name |-> name] >>,
         MemberMeta(compare_files(get_member(self, name), get_member(other, name), <<name>>),
                    compare_meta(get_member(self, name).name, FileAt(self, name).meta,
                                 get_member(other, name).name, FileAt(other, name).meta),
                    get_member(self, name).path, get_member(other, name).path))

\* the loop over the members, up to the first raise
RECURSIVE CompareMemberLoop(_, _, _)
CompareMemberLoop(names, self, other) ==
  IF names = <<>> THEN Out(List(<<>>), <<>>)
  ELSE Then(CompareMember(self, other, Head(names)),
            CompareMemberLoop(Tail(names), self, other))

\* the listing part of FilesystemDirectory.compare
ListingPart(listing_diff) ==
  IF IsToolMissing(listing_diff) THEN Out(List(<<>>), Log("info", "Unable to find 'getfacl'."))
  ELSE Out(List(FilterNone(<<listing_diff>>)), <<>>)

ListingDiff(self, other) ==
  ListingPart(from_text(JoinLines(list_files(self)), JoinLines(list_files(other)),
                        self.path, other.path, <<"file list">>, <<>>))

\* compare_meta, as a list-valued step
MetaDetails(meta) == Out(List(meta.ret), meta.ev)

\* the end of FilesystemDirectory.compare, given the differences collected
WrapDifferences(self, other, source, all) ==
  IF IsRaise(all.ret) THEN all
  ELSE IF all.ret.items = <<>> THEN Out(None, all.ev)
  ELSE Out(add_details(Difference(<<>>, self.path, other.path, source, <<>>), all.ret.items),
           all.ev)

FilesystemDirectory_compare(self, other, source) ==
  WrapDifferences(self, other, source,
    Then(ListingDiff(self, other),
         Then(MetaDetails(compare_meta(self.path, self.meta, other.path, other.meta)),
              CompareMemberLoop(CommonNames(get_member_names(self), get_member_names(other)),
                                self, other))))

-----
\* The container view of a File object (binary.py: as_container, cleanup)

NoView == 0
NObjs == 2

\* a File object: its class, for a NonExistingFile the class of _other_file,
\* and the _as_container attribute (NoView when the attribute is not set)
Object(cls, other_file) == [cls |-> cls, other_file |-> other_file, _as_container |-> NoView]

Objects ==
  {Object(cls, "None") : cls \in RealClasses}
    \cup {Object("NonExistingFile", o) : o \in RealClasses \cup {"None"}}

View(id) == [kind |-> "Container", id |-> id]

\* File.as_container on object i: Out-like record of the value returned, the
\* object afterwards and whether a container was constructed
as_container_of(obj, id) ==
  IF ~HasContainerClass(obj.cls)
  THEN IF IsMissing(obj)
       THEN IF HasContainerClass(obj.other_file)
            THEN [ret |-> View(id), obj |-> obj, constructed |-> TRUE]
            ELSE [ret |-> Raise("AttributeError", "CONTAINER_CLASS"), obj |-> obj,
                  constructed |-> FALSE]
       ELSE [ret |-> None, obj |-> obj, constructed |-> FALSE]
  ELSE IF obj._as_container = NoView
       THEN [ret |-> View(id), obj |-> [obj EXCEPT !._as_container = id], constructed |-> TRUE]
       ELSE [ret |-> View(obj._as_container), obj |-> obj, constructed |-> FALSE]

\* File.cleanup
cleanup(obj) ==
  IF obj._as_container # NoView THEN [obj EXCEPT !._as_container = NoView] ELSE obj

----------------------------------------------------------------------------
\* Inputs

Environments == {T \in SUBSET ToolNames : Cardinality(ToolNames \ T) <= MaxMissing}

OldFiles == {FilesystemFile(cls, <<"old">>, c) : cls \in RealClasses, c \in Contents}
NewFiles == {FilesystemFile(cls, <<"new">>, c) : cls \in RealClasses, c \in Contents}

\* what a real file is compared with: itself, a file of its class or a plain
\* file, or a missing file
Others(self) ==
  {self}
    \cup {f \in NewFiles : f.cls \in {self.cls, "FilesystemFile"}}
    \cup {NonExistingFile(<<"new">>, o) : o \in {"None", self.cls}}

NameSet == ToSet(Names)
Perms(S) == {w \in [1..Cardinality(S) -> S] : ToSet(w) = S}
Reversed(seq) == [i \in 1..Len(seq) |-> seq[Len(seq) + 1 - i]]

Meta(mode, inode, attrs, acl) == [mode |-> mode, inode |-> inode, attrs |-> attrs, acl |-> acl]

LeftDirs ==
  {Directory(<<"left">>, [n \in S |-> [content |-> <<0>>, meta |-> Meta(0, 0, 0, 0)]], w,
             Meta(0, 0, 0, 0)) :
     <<S, w>> \in UNION {{<<S, w>> : w \in Perms(S)} : S \in SUBSET NameSet}}

\* the files of the right directory, by what became of each name
RightFiles(fate) ==
  [n \in {m \in NameSet : fate[m] # "absent"} |->
     [content |-> IF fate[n] = "content" THEN <<1>> ELSE <<0>>,
      meta |-> Meta(IF fate[n] = "meta" THEN 1 ELSE 0, 1, 0, 0)]]

RightDirs ==
  {Directory(<<"right">>, RightFiles(fate), Reversed(sorted(DOMAIN RightFiles(fate))), meta) :
     fate \in [NameSet -> {"absent", "same", "content", "meta"}],
     meta \in {Meta(0, 1, 0, 0), Meta(0, 1, 1, 0), Meta(0, 1, 0, 1)}}

----------------------------------------------------------------------------
\* Actions

Idle == [name |-> "none"]

Finish(name, self, other, out) ==
  /\ pc' = "done"
  /\ op' = [name |-> name, self |-> self, other |-> other]
  /\ result' = out.ret
  /\ events' = out.ev
  /\ UNCHANGED <<tools, failing, objs, made, nextId>>

\* file.compare(other) on a real file
CompareFiles ==
  /\ pc = "idle"
  /\ \E self \in OldFiles : \E other \in Others(self) :
       Finish("File.compare", self, other, compare(self, other, NoSource))

\* missing.compare(other) on a NonExistingFile
CompareMissing ==
  /\ pc = "idle"
  /\ \E other \in NewFiles \cup {NonExistingFile(<<"new">>, "None")} :
       \E o \in {"None", other.cls} :
         LET self == NonExistingFile(<<"old">>, o)
         IN Finish("NonExistingFile.compare", self, other, compare(self, other, NoSource))

\* file.has_same_content_as(other)
HasSameContent ==
  /\ pc = "idle"
  /\ \E self \in {f \in OldFiles : f.cls = "FilesystemFile"} \cup {NonExistingFile(<<"old">>, "None")} :
       \E other \in {f \in NewFiles : f.cls = "FilesystemFile"} \cup {NonExistingFile(<<"new">>, "None")} :
         Finish("has_same_content_as", self, other, Out(has_same_content_as(self, other), <<>>))

\* FilesystemDirectory(path1).compare(FilesystemDirectory(path2))
CompareDirectories ==
  /\ pc = "idle"
  /\ \E self \in LeftDirs : \E other \in RightDirs \cup {self} :
       Finish("FilesystemDirectory.compare", self, other,
              FilesystemDirectory_compare(self, other, NoSource))

\* the caller takes the result
Return ==
  /\ pc = "done"
  /\ pc' = "idle"
  /\ op' = Idle
  /\ result' = None
  /\ events' = <<>>
  /\ UNCHANGED <<tools, failing, objs, made, nextId>>

\* obj.as_container
AccessAsContainer(i) ==
  /\ nextId <= MaxViews
  /\ LET a == as_container_of(objs[i], nextId)
     IN /\ objs' = [objs EXCEPT ![i] = a.obj]
        /\ made' = IF IsRaise(a.ret) \/ IsNone(a.ret) THEN made
                   ELSE [made EXCEPT ![i] = @ \cup {a.ret.id}]
        /\ nextId' = IF a.constructed THEN nextId + 1 ELSE nextId
        /\ result' = a.ret
        /\ op' = [name |-> "as_container", self |-> i]
  /\ UNCHANGED <<tools, failing, pc, events>>

\* obj.cleanup()
Cleanup(i) ==
  /\ objs' = [objs EXCEPT ![i] = cleanup(objs[i])]
  /\ made' = [made EXCEPT ![i] = {}]
  /\ result' = None
  /\ op' = [name |-> "cleanup", self |-> i]
  /\ UNCHANGED <<tools, failing, pc, events, nextId>>

----------------------------------------------------------------------------
\* Specifications

Init ==
  /\ tools \in Environments
  /\ failing \in SUBSET ({DecoderTool} \cap tools)
  /\ pc = "idle"
  /\ op = Idle
  /\ result = None
  /\ events = <<>>
  /\ objs = <<>>
  /\ made = <<>>
  /\ nextId = 1

Next ==
  \/ CompareFiles
  \/ CompareMissing
  \/ HasSameContent
  \/ CompareDirectories
  \/ Return

Spec == Init /\ [][Next]_vars

InitView ==
  /\ tools = ToolNames
  /\ failing = {}
  /\ pc = "idle"
  /\ op = Idle
  /\ result = None
  /\ events = <<>>
  /\ objs \in [1..NObjs -> Objects]
  /\ made = [i \in 1..NObjs |-> {}]
  /\ nextId = 1

NextView ==
  \/ \E i \in 1..NObjs : AccessAsContainer(i)
  \/ \E i \in 1..NObjs : Cleanup(i)

SpecView == InitView /\ [][NextView]_vars


----------------------------------------------------------------------------
\* Properties

Done(name) == pc = "done" /\ op.name = name

\* every comment of a Difference tree, depth first
RECURSIVE TreeComments(_)
RECURSIVE ForestComments(_)
ForestComments(details) ==
  IF details = <<>> THEN <<>>
  ELSE TreeComments(Head(details)) \o ForestComments(Tail(details))
TreeComments(d) == d.comments \o ForestComments(d.details)

Last(seq) == seq[Len(seq)]

\* the try block of File.compare raised in compare_details or in the
\* container recursion, and an except clause caught it
DetailsRaised ==
  \E i \in 1..Len(events) - 1 :
    /\ events[i].e = "raised" /\ events[i].in = "details"
    /\ events[i + 1].e = "caught"

CaughtCommands == {events[i].command : i \in {j \in 1..Len(events) : events[j].e = "caught"}}

\* C1: when compare_details or the container recursion raises
\* RequiredToolNotFound or CalledProcessError, File.compare does not raise: it
\* returns None or a Difference with a comment that names the failed command.
C1_FallbackGuarantee ==
  (Done("File.compare") /\ DetailsRaised) =>
    /\ ~IsRaise(result)
    /\ (IsNone(result) \/
        \A command \in CaughtCommands :
          \E i \in 1..Len(result.comments) : Last(result.comments[i]) = command)

\* two files, or two directories, with identical content and no metadata
\* difference (the inode is not metadata that counts)
SameMeta(meta1, meta2) ==
  meta1.mode = meta2.mode /\ meta1.attrs = meta2.attrs /\ meta1.acl = meta2.acl

IdenticalFiles(self, other) ==
  ~IsMissing(other) /\ self.cls = other.cls /\ self.content = other.content

IdenticalDirectories(self, other) ==
  /\ DOMAIN self.files = DOMAIN other.files
  /\ SameMeta(self.meta, other.meta)
  /\ \A n \in DOMAIN self.files :
       /\ self.files[n].content = other.files[n].content
       /\ SameMeta(self.files[n].meta, other.files[n].meta)

\* C2: File.compare and FilesystemDirectory.compare return None for two
\* entities with identical content and no metadata difference.
C2_AbsencePropagation ==
  /\ (Done("File.compare") /\ IdenticalFiles(op.self, op.other)) => IsNone(result)
  /\ (Done("FilesystemDirectory.compare") /\ IdenticalDirectories(op.self, op.other))
       => IsNone(result)

\* r is the structural reverse of d: the sources swapped, the two sides of the
\* unified diff swapped, the same comments, and the details reversed one by
\* one in the same order
RECURSIVE IsReverseOf(_, _)
IsReverseOf(r, d) ==
  /\ r.source1 = d.source2
  /\ r.source2 = d.source1
  /\ r.comments = d.comments
  /\ Len(r.unified_diff) = Len(d.unified_diff)
  /\ (d.unified_diff # <<>> =>
        r.unified_diff[1] = d.unified_diff[2] /\ r.unified_diff[2] = d.unified_diff[1])
  /\ Len(r.details) = Len(d.details)
  /\ \A i \in 1..Len(d.details) : IsReverseOf(r.details[i], d.details[i])

\* what other.compare(missing) gives, for the missing.compare(other) just run
Forward == File_compare(op.other, op.self, NoSource).ret

\* C3: for a missing M and a real B, M.compare(B) is the structural reverse of
\* B.compare(M) at every depth, and is None when B.compare(M) is None.
C3_ReversalSymmetry ==
  (Done("NonExistingFile.compare") /\ ~IsMissing(op.other)) =>
    /\ IsNone(Forward) => IsNone(result)
    /\ IsDifference(Forward) => (IsDifference(result) /\ IsReverseOf(result, Forward))

\* a reversed difference with a detail below it and a comment on it
C3_Witness ==
  /\ Done("NonExistingFile.compare") /\ ~IsMissing(op.other)
  /\ IsDifference(result)
  /\ result.source1 = <<"old">> /\ result.source2 = <<"new">>
  /\ Len(result.details) >= 1
  /\ result.details[1].source1 = <<"old">>
  /\ result.details[1].unified_diff # <<>>

BackwardCalls == {i \in 1..Len(events) : events[i].e = "backward"}

\* C4: two missing files compare to one Difference with a comment, no detail
\* and no unified diff, labelled with the two names, and other.compare is not
\* called.
C4_BothMissing ==
  (Done("NonExistingFile.compare") /\ IsMissing(op.other)) =>
    /\ IsDifference(result)
    /\ Len(result.comments) >= 1
    /\ result.details = <<>>
    /\ result.unified_diff = <<>>
    /\ result.source1 = op.self.name
    /\ result.source2 = op.other.name
    /\ BackwardCalls = {}

C4_Witness ==
  /\ Done("NonExistingFile.compare") /\ IsMissing(op.other)
  /\ IsDifference(result)
  /\ result.comments = << <<"Trying to compare two non-existing files.">> >>

\* a comment of the tree records the degradation event ev
Recorded(ev, comments) ==
  \E i \in 1..Len(comments) :
    \/ ev.e = "caught" /\ Last(comments[i]) = ev.command
    \/ ev.e = "fallback" /\ ev.what = "hexlify"
         /\ comments[i] = <<"xxd not available in path. Falling back to Python hexlify.">>
    \/ ev.e = "fallback" /\ ev.what = "inconsistent"
         /\ comments[i] = <<"No differences found inside, yet data differs">>
    \/ ev.e = "log" /\ comments[i] = <<ev.message>>

Degradations == {i \in 1..Len(events) : events[i].e \in {"caught", "fallback", "log"}}

\* C5: every degradation of a comparison (a tool missing or failing, the
\* "no details yet bytes differ" case, the hex dump fallback, a missing
\* metadata or diff tool in a directory) is recorded by a comment of the
\* Difference tree returned.
C5_NoSilentFallback ==
  (pc = "done" /\ IsDifference(result)) =>
    \A i \in Degradations : Recorded(events[i], TreeComments(result))

\* every node of the tree has a detail, a unified diff or a comment
RECURSIVE NoEmptyNode(_)
NoEmptyNode(d) ==
  /\ d.details # <<>> \/ d.unified_diff # <<>> \/ d.comments # <<>>
  /\ \A i \in 1..Len(d.details) : NoEmptyNode(d.details[i])

\* C6: no Difference handed back by a comparison, nor any node below it, is
\* empty: each has a detail, a unified diff or a comment.
C6_NoEmptyDifference ==
  (pc = "done" /\ IsDifference(result)) => NoEmptyNode(result)

\* the placeholder of a member whose metadata alone differs
C6_Witness ==
  /\ Done("FilesystemDirectory.compare") /\ IsDifference(result)
  /\ \E i \in 1..Len(result.details) :
       /\ Len(result.details[i].source1) = 2
       /\ result.details[i].unified_diff = <<>>
       /\ result.details[i].comments = <<>>
       /\ result.details[i].details # <<>>

\* the names compare_files was called for, in the order of the calls
RECURSIVE ComparedNames(_)
ComparedNames(ev) ==
  IF ev = <<>> THEN <<>>
  ELSE IF Head(ev).e = "compare_files" THEN <<Head(ev).name>> \o ComparedNames(Tail(ev))
  ELSE ComparedNames(Tail(ev))

Ascending(names) == \A i \in 1..Len(names) - 1 : Rank(names[i]) < Rank(names[i + 1])

\* a detail of the directory's Difference that stands for a member
IsMemberDetail(d) == Len(d.source1) = 2
MemberDetails(d) == SelectSeq(d.details, IsMemberDetail)
MemberNames(d) == [i \in 1..Len(MemberDetails(d)) |-> MemberDetails(d)[i].source1[2]]

\* C7: FilesystemDirectory.compare compares the common members in sorted name
\* order, whatever order the enumeration gave, and the member details of its
\* Difference are in that order, after the listing and metadata details.
C7_SortedTraversal ==
  Done("FilesystemDirectory.compare") =>
    /\ Ascending(ComparedNames(events))
    /\ IsDifference(result) =>
         /\ Ascending(MemberNames(result))
         /\ \A i \in 1..Len(result.details) : \A j \in 1..Len(result.details) :
              (IsMemberDetail(result.details[i]) /\ ~IsMemberDetail(result.details[j])) => j < i

C7_Witness ==
  /\ Done("FilesystemDirectory.compare") /\ IsDifference(result)
  /\ op.self.walk = <<"b", "a", "c">>
  /\ MemberNames(result) = <<"a", "b", "c">>
  /\ \E i \in 1..Len(result.details) : ~IsMemberDetail(result.details[i])

\* a directory without the files the other directory has not
Restricted(dir, other) ==
  [dir EXCEPT !.files = [n \in DOMAIN dir.files \cap DOMAIN other.files |-> dir.files[n]],
              !.walk = SelectSeq(dir.walk, LAMBDA n : n \in DOMAIN other.files)]

\* the comparison of the two directories without their one-sided files
CommonOnly ==
  FilesystemDirectory_compare(Restricted(op.self, op.other), Restricted(op.other, op.self),
                              NoSource)

OneSided == (DOMAIN op.self.files \cup DOMAIN op.other.files)
              \ (DOMAIN op.self.files \cap DOMAIN op.other.files)

IsListing(d) == d.source = <<"file list">>
NotListing(d) == ~IsListing(d)
DetailsOf(r) == IF IsDifference(r) THEN r.details ELSE <<>>

\* C8 as stated: a name on one side only is not compared and adds nothing to
\* the result, which is what the common members alone give.
C8_OneSidedAddsNothing ==
  Done("FilesystemDirectory.compare") =>
    /\ ToSet(ComparedNames(events)) \cap OneSided = {}
    /\ result = CommonOnly.ret

\* C8 (amended): a name on one side only is never passed to compare_files and
\* gives no member detail; it shows in the "file list" detail alone: the other
\* details are what the common members alone give.
C8_OneSidedOnlyInListing ==
  Done("FilesystemDirectory.compare") =>
    /\ ToSet(ComparedNames(events)) \cap OneSided = {}
    /\ ToSet(MemberNames([details |-> DetailsOf(result)])) \cap OneSided = {}
    /\ IsRaise(result) <=> IsRaise(CommonOnly.ret)
    /\ SelectSeq(DetailsOf(result), NotListing) = SelectSeq(DetailsOf(CommonOnly.ret), NotListing)
    /\ (IsDifference(result) /\ SelectSeq(result.details, IsListing) # <<>>)
         => DOMAIN op.self.files # DOMAIN op.other.files

\* an extra file on the left, every common member identical: the listing
\* detail is the whole result
C8_Witness ==
  /\ Done("FilesystemDirectory.compare")
  /\ DOMAIN op.self.files = {"a", "b"} /\ DOMAIN op.other.files = {"a"}
  /\ IsNone(CommonOnly.ret)
  /\ IsDifference(result)
  /\ Len(result.details) = 1
  /\ IsListing(result.details[1])

\* what the external tool path alone answers
ExternalComparison(self, other) ==
  IF "cmp" \notin tools THEN Raise("RequiredToolNotFound", "cmp")
  ELSE Bool(0 = cmp(Read(self), Read(other)))

\* C9: for two small files has_same_content_as answers what the byte-by-byte
\* comparison by cmp answers: true exactly when the contents are equal.
C9_SmallFileShortcut ==
  (Done("has_same_content_as") /\ ~IsMissing(op.self)
     /\ getsize(op.self) <= SMALL_FILE_THRESHOLD /\ getsize(op.other) <= SMALL_FILE_THRESHOLD) =>
    /\ result = ExternalComparison(op.self, op.other)
    /\ ~IsRaise(result) => (result.value <=> Read(op.self) = Read(op.other))

\* two files of one size that differ: the shortcut declines and cmp decides
C9_Witness ==
  /\ Done("has_same_content_as") /\ ~IsMissing(op.self) /\ ~IsMissing(op.other)
  /\ getsize(op.self) = getsize(op.other) /\ getsize(op.self) > 0
  /\ result = Bool(FALSE)

\* C10: between two cleanups every as_container access of an object returns
\* one and the same container view; cleanup discards it and does not raise.
C10_OneViewPerEntity ==
  /\ \A i \in DOMAIN made : Cardinality(made[i]) <= 1
  /\ op.name = "cleanup" => (objs[op.self]._as_container = NoView /\ IsNone(result))

\* File.compare on a real file handed the container comparison a counterpart
\* without a container view
ComparedWithNoView ==
  \E i \in 1..Len(events) :
    events[i].e = "container_compare" /\ events[i].other = "None"

\* C11: in the details-based comparison of File.compare the containers are
\* compared only if both self and other have a container view: when other has
\* none, no container comparison is invoked, and the comparison ends with None
\* or a Difference (whose details are the compare_details results), never with
\* the exception of a container comparison against nothing.
C11_RecursionNeedsBothSides ==
  (Done("File.compare") /\ IsNone(as_container(op.other))) =>
    /\ ~ComparedWithNoView
    /\ ~(IsRaise(result) /\ result.exc = "AttributeError")

====
